---- MODULE Spec2Model ----
(***************************************************************************)
(* Configuration requirement schema of                                     *)
(* volatility/framework/configuration/__init__.py: the requirement classes,*)
(* their constructors and their validate methods.                          *)
(*                                                                         *)
(* A Python value is a record [kind, val, items]: kind is the name of the  *)
(* value's type, val its printed form for scalars, items the elements of a *)
(* list.  A failed call is the kind of failure of the raise statement that *)
(* ended it; "Ok" is a call that returned.                                 *)
(*                                                                         *)
(* Every record is written with its fields in the order TLC keeps them     *)
(* (the order in which the names first occur in the module), so that a     *)
(* record shared by TLC's workers is never reordered while it is read.     *)
(***************************************************************************)
EXTENDS Integers, Sequences, FiniteSets, TLC

(* ---------------- bounds ---------------- *)
MaxLen == 2          \* longest candidate list
MaxElements == 2     \* largest min_elements / max_elements
MaxChildren == 2     \* longest valid_children / requirements sequence

(* ---------------- outcomes ---------------- *)
Ok == "Ok"
TypeMismatch == "TypeMismatch"                 \* TypeError, lines 17, 58, 90
NotInChoiceSet == "NotInChoiceSet"             \* ValueError, line 76
ElementInvalid == "ElementInvalid"             \* TypeError, lines 91-92
ArityViolation == "ArityViolation"             \* TypeError, line 94
UnresolvedReference == "UnresolvedReference"   \* IndexError, line 60
MissingChildResults == "MissingChildResults"   \* ValueError, lines 110, 126
NoValidChild == "NoValidChild"                 \* ValueError, line 112
AnyChildInvalid == "AnyChildInvalid"           \* ValueError, line 128
InvalidSchema == "InvalidSchema"               \* TypeError, lines 70, 83, 84

(* ---------------- Python values ---------------- *)
NoneValue == [kind |-> "NoneType", val |-> "None", items |-> <<>>]
BoolValue(b) == [kind |-> "bool", val |-> IF b THEN "True" ELSE "False", items |-> <<>>]
IntValue(s) == [kind |-> "int", val |-> s, items |-> <<>>]
StrValue(s) == [kind |-> "str", val |-> s, items |-> <<>>]
ListValue(xs) == [kind |-> "list", val |-> "", items |-> xs]

Strings == {"", "fast", "layer1"}
Scalars == {NoneValue, BoolValue(TRUE), BoolValue(FALSE), IntValue("0"), IntValue("1")}
             \cup {StrValue(s) : s \in Strings}

SeqsUpTo(S, n) == UNION {[1..k -> S] : k \in 0..n}

ListItems == {IntValue("0"), IntValue("1"), StrValue("fast"), StrValue("layer1")}
Values == Scalars \cup {ListValue(xs) : xs \in SeqsUpTo(ListItems, MaxLen)}

\* bool(value): the truth value Python's all() takes of an element
Truthy(value) ==
    CASE value.kind = "NoneType" -> FALSE
      [] value.kind = "bool" -> value.val = "True"
      [] value.kind = "int" -> value.val # "0"
      [] value.kind = "str" -> value.val # ""
      [] OTHER -> value.items # <<>>

\* isinstance(value, type): bool is a subclass of int
IsInstance(value, type) ==
    \/ value.kind = type
    \/ value.kind = "bool" /\ type = "int"

(* ---------------- valid_children ---------------- *)
\* None, or a list of the children's outcomes
NoChildResults == [given |-> FALSE, results |-> <<>>]
ChildResults(rs) == [given |-> TRUE, results |-> rs]
ValidChildren == {NoChildResults} \cup {ChildResults(rs) : rs \in SeqsUpTo(BOOLEAN, MaxChildren)}

any(xs) == \E i \in DOMAIN xs : xs[i]
all(xs) == \A i \in DOMAIN xs : xs[i]

(* ---------------- requirement nodes ---------------- *)
Names == {"depth", "mode"}
LayerNames == {"layer1", "layer2"}
InstanceClasses == {"InstanceRequirement", "IntRequirement", "StringRequirement"}

\* the attributes every constructor argument that is a node carries
Leaf(cls, name, optional, choices) ==
    [cls |-> cls, name |-> name, optional |-> optional, choices |-> choices]
NoLeaf == Leaf("None", "", FALSE, <<>>)

\* a constructed requirement: the attributes of all six classes
Node(cls, name, optional, choices, element, maxe, mine, children) ==
    [cls |-> cls, name |-> name, optional |-> optional, choices |-> choices,
     children |-> children,
     element_type |-> element, max_elements |-> maxe, min_elements |-> mine]
NoNode == Node("None", "", FALSE, <<>>, NoLeaf, 0, 0, <<>>)

AsLeaf(n) == Leaf(n.cls, n.name, n.optional, n.choices)

\* ConfigurationSchemaNode.__init__(self, name, description, default, optional):
\* records the name and the optionality on the node it is given
SchemaNodeInit(cls, name, optional) ==
    Node(cls, name, optional, <<>>, NoLeaf, 0, 0, <<>>)

\* ConfigurationSchemaNode.add_item(requirement): appends a child
AddItem(self, requirement) ==
    [self EXCEPT !.children = Append(@, requirement)]

\* self._type_check(value, valid_type): raises unless the value is of the type,
\* and returns the value (line 84 keeps what it returns as element_type)
TypeCheckOk(value, type) == IsInstance(value, type)

\* instance_type of the three InstanceRequirement classes
InstanceType(cls) ==
    CASE cls = "InstanceRequirement" -> "bool"
      [] cls = "IntRequirement" -> "int"
      [] OTHER -> "str"

(* ---------------- constructors: [raised, node] ---------------- *)
Built(n) == [raised |-> Ok, node |-> n]
Failed(kind) == [raised |-> kind, node |-> NoNode]

\* InstanceRequirement, IntRequirement, StringRequirement define no __init__
NewInstance(cls, name, optional) == Built(SchemaNodeInit(cls, name, optional))

\* line 42 calls the base initialiser without the instance: `name` takes the
\* receiver's place and the new node's own name and optionality are never set
\* (base_accepts: whether the base initialiser accepts `name` as its receiver)
NewTranslationLayer(name, optional, layer_name, base_accepts) ==
    IF ~base_accepts THEN Failed("AttributeError")
    ELSE Built(Node("TranslationLayerRequirement", "", FALSE, <<>>, NoLeaf, 0, 0, <<>>))

NewChoice(choices, name, optional) ==
    IF choices.kind # "list" \/ any([i \in DOMAIN choices.items |-> choices.items[i].kind # "str"])
    THEN Failed(InvalidSchema)
    ELSE Built([SchemaNodeInit("ChoiceRequirement", name, optional) EXCEPT !.choices = choices.items])

NewList(element_type, max_elements, min_elements, name, optional) ==
    IF element_type.cls = "ListRequirement" THEN Failed(InvalidSchema)
    ELSE IF element_type.cls = "NotANode" THEN Failed(InvalidSchema)
    ELSE Built([SchemaNodeInit("ListRequirement", name, optional) EXCEPT
                    !.element_type = element_type,
                    !.min_elements = min_elements,
                    !.max_elements = max_elements])

RECURSIVE AddAll(_, _)
AddAll(self, requirements) ==
    IF requirements = <<>> THEN self
    ELSE AddAll(AddItem(self, Head(requirements)), Tail(requirements))

NewDisjunction(requirements, name, optional) ==
    Built(AddAll(SchemaNodeInit("DisjunctionRequirement", name, optional), requirements))

NewConjunction(requirements, name, optional) ==
    Built(AddAll(SchemaNodeInit("ConjunctionRequirement", name, optional), requirements))

(* ---------------- validate ---------------- *)
InstanceValidate(self, value, context, valid_children) ==
    IF ~IsInstance(value, InstanceType(self.cls)) THEN TypeMismatch ELSE Ok

\* a validate that forgets to look the name up in the context
TranslationLayerValidateNoLookup(self, value, context, valid_children) ==
    IF ~IsInstance(value, "str") THEN TypeMismatch ELSE Ok

TranslationLayerValidate(self, value, context, valid_children) ==
    IF ~IsInstance(value, "str") THEN TypeMismatch
    ELSE IF value.val \notin context THEN UnresolvedReference
    ELSE Ok

ChoiceValidate(self, value, context, valid_children) ==
    IF ~(\E i \in DOMAIN self.choices : self.choices[i] = value) THEN NotInChoiceSet ELSE Ok

\* validate of a node held as element_type
ElementValidate(self, value, context) ==
    CASE self.cls \in InstanceClasses -> InstanceValidate(self, value, context, NoChildResults)
      [] self.cls = "ChoiceRequirement" -> ChoiceValidate(self, value, context, NoChildResults)
      [] OTHER -> TranslationLayerValidate(self, value, context, NoChildResults)

\* the type an element must be an instance of to pass _type_check(element, element_type)
DeclaredKind(element_type) ==
    IF element_type.cls \in InstanceClasses THEN InstanceType(element_type.cls) ELSE "str"

\* lines 95-96: the first element whose validate raises ends the loop
RECURSIVE ValidateElements(_, _, _)
ValidateElements(element_type, items, context) ==
    IF items = <<>> THEN Ok
    ELSE LET r == ElementValidate(element_type, Head(items), context)
         IN IF r # Ok THEN r ELSE ValidateElements(element_type, Tail(items), context)

\* list checks without the arity test
ListChecksNoArity(self, value) ==
    IF ~TypeCheckOk(value, "list") THEN TypeMismatch
    ELSE IF \E i \in DOMAIN value.items :
                ~TypeCheckOk(value.items[i], DeclaredKind(self.element_type))
    THEN ElementInvalid
    ELSE IF ~all([i \in DOMAIN value.items |-> Truthy(value.items[i])]) THEN ElementInvalid
    ELSE Ok

\* lines 90-94: the checks ListRequirement.validate makes before it validates any element
ListChecks(self, value) ==
    IF ~TypeCheckOk(value, "list") THEN TypeMismatch
    ELSE IF \E i \in DOMAIN value.items :
                ~TypeCheckOk(value.items[i], DeclaredKind(self.element_type))
    THEN ElementInvalid
    ELSE IF ~all([i \in DOMAIN value.items |-> Truthy(value.items[i])]) THEN ElementInvalid
    ELSE IF ~(self.min_elements <= Len(value.items) /\ Len(value.items) <= self.max_elements)
    THEN ArityViolation
    ELSE Ok

ListValidate(self, value, context, valid_children) ==
    IF ListChecks(self, value) # Ok THEN ListChecks(self, value)
    ELSE ValidateElements(self.element_type, value.items, context)

\* a disjunction that asks for every child
DisjunctionValidateAll(self, value, context, valid_children) ==
    IF ~valid_children.given THEN MissingChildResults
    ELSE IF ~all(valid_children.results) THEN NoValidChild
    ELSE Ok

DisjunctionValidate(self, value, context, valid_children) ==
    IF ~valid_children.given THEN MissingChildResults
    ELSE IF ~any(valid_children.results) THEN NoValidChild
    ELSE Ok

\* a conjunction that is content with one child
ConjunctionValidateAny(self, value, context, valid_children) ==
    IF ~valid_children.given THEN MissingChildResults
    ELSE IF ~any(valid_children.results) THEN AnyChildInvalid
    ELSE Ok

ConjunctionValidate(self, value, context, valid_children) ==
    IF ~valid_children.given THEN MissingChildResults
    ELSE IF ~all(valid_children.results) THEN AnyChildInvalid
    ELSE Ok

Validate(self, value, context, valid_children) ==
    CASE self.cls \in InstanceClasses -> InstanceValidate(self, value, context, valid_children)
      [] self.cls = "TranslationLayerRequirement" -> TranslationLayerValidate(self, value, context, valid_children)
      [] self.cls = "ChoiceRequirement" -> ChoiceValidate(self, value, context, valid_children)
      [] self.cls = "ListRequirement" -> ListValidate(self, value, context, valid_children)
      [] self.cls = "DisjunctionRequirement" -> DisjunctionValidate(self, value, context, valid_children)
      [] OTHER -> ConjunctionValidate(self, value, context, valid_children)

(* ---------------- arguments the callers draw ---------------- *)
MaxChoices == 2      \* longest choices list

ChoiceItems == {StrValue("fast"), StrValue("full"), IntValue("1")}
ChoicesArgs == {NoneValue, StrValue("fast")}
                 \cup {ListValue(xs) : xs \in SeqsUpTo(ChoiceItems, MaxChoices)}

\* requirements handed to ListRequirement and to the combinators
LeafRequirements ==
    {AsLeaf(NewInstance(c, "depth", FALSE).node) : c \in InstanceClasses}
      \cup {AsLeaf(NewChoice(ListValue(<<StrValue("fast"), StrValue("full")>>), "mode", FALSE).node),
            AsLeaf(NewTranslationLayer("layer", FALSE, "layer1", TRUE).node)}
ElementArgs == LeafRequirements \cup {Leaf("ListRequirement", "inner", FALSE, <<>>),
                                      Leaf("NotANode", "", FALSE, <<>>)}
DepthRequirement == NewInstance("IntRequirement", "depth", FALSE).node
ModeRequirement == NewChoice(ListValue(<<StrValue("fast"), StrValue("full")>>), "mode", FALSE).node
CombinatorChildren == {DepthRequirement, ModeRequirement}

(* ---------------- state ---------------- *)
VARIABLES node,     \* the requirement constructed last
          memory,   \* context.memory: the names of the registered layers
          last,     \* the call in progress: its arguments and what it raised
          request   \* a validation request over the tree rooted at node
vars == <<node, memory, last, request>>

NoRequest == [results |-> <<>>, active |-> FALSE, values |-> <<>>, pos |-> 0, idx |-> 0,
              calls_root |-> 0, calls_child |-> <<>>, calls_elem |-> <<>>, outcome |-> "none"]

Idle == [value |-> NoneValue, raised |-> Ok, valid_children |-> NoChildResults, op |-> "idle"]
Call(op, value, valid_children, raised) ==
    [value |-> value, raised |-> raised, valid_children |-> valid_children, op |-> op]

Init ==
    /\ node = NoNode
    /\ memory \in SUBSET LayerNames
    /\ last = Idle
    /\ request = NoRequest

\* a constructor call: the node exists only if the constructor returned
Construct(res) ==
    /\ last.op = "idle"
    /\ node' = IF res.raised = Ok THEN res.node ELSE node
    /\ last' = Call("construct", NoneValue, NoChildResults, res.raised)
    /\ UNCHANGED <<memory, request>>

ConstructInstance ==
    \E c \in InstanceClasses, n \in Names, o \in BOOLEAN : Construct(NewInstance(c, n, o))

ConstructTranslationLayer ==
    \E o \in BOOLEAN, l \in LayerNames, b \in BOOLEAN :
        Construct(NewTranslationLayer("layer", o, l, b))

ConstructChoice ==
    \E cs \in ChoicesArgs, n \in Names, o \in BOOLEAN : Construct(NewChoice(cs, n, o))

ConstructList ==
    \E e \in ElementArgs, mx \in 0..MaxElements, mn \in 0..MaxElements, o \in BOOLEAN :
        Construct(NewList(e, mx, mn, "items", o))

ConstructDisjunction ==
    \E rs \in SeqsUpTo(CombinatorChildren, MaxChildren), o \in BOOLEAN :
        Construct(NewDisjunction(rs, "any", o))

ConstructConjunction ==
    \E rs \in SeqsUpTo(CombinatorChildren, MaxChildren), o \in BOOLEAN :
        Construct(NewConjunction(rs, "all", o))

\* node.validate(value, context, valid_children)
CallValidate(value, valid_children) ==
    /\ last.op = "idle"
    /\ last' = Call("validate", value, valid_children, Validate(node, value, memory, valid_children))
    /\ UNCHANGED <<node, memory, request>>

\* a leaf is validated with or without child results
ValidateLeaf ==
    /\ node.cls \in InstanceClasses \cup {"TranslationLayerRequirement", "ChoiceRequirement", "ListRequirement"}
    /\ \E v \in Values, vc \in {NoChildResults, ChildResults(<<TRUE>>)} : CallValidate(v, vc)

ValidateCombinator ==
    /\ node.cls \in {"DisjunctionRequirement", "ConjunctionRequirement"}
    /\ \E v \in Scalars, vc \in ValidChildren : CallValidate(v, vc)

\* the caller takes the outcome
Return ==
    /\ last.op # "idle"
    /\ last' = Idle
    /\ UNCHANGED <<node, memory, request>>

Next ==
    \/ ConstructInstance
    \/ ConstructTranslationLayer
    \/ ConstructChoice
    \/ ConstructList
    \/ ConstructDisjunction
    \/ ConstructConjunction
    \/ ValidateLeaf
    \/ ValidateCombinator
    \/ Return

Spec == Init /\ [][Next]_vars

(* ---------------- the validation contract ---------------- *)
Validated(classes) == last.op = "validate" /\ node.cls \in classes
Combinators == {"DisjunctionRequirement", "ConjunctionRequirement"}
LeafClasses == InstanceClasses \cup {"TranslationLayerRequirement", "ChoiceRequirement", "ListRequirement"}

\* C1: a scalar requirement accepts a value if and only if the value's kind is
\* exactly the requirement's expected kind, and fails TypeMismatch otherwise
\* (a boolean never satisfies an IntRequirement, an integer never the boolean one).
C1_ScalarExactKind ==
    Validated(InstanceClasses) =>
        /\ last.raised = Ok <=> last.value.kind = InstanceType(node.cls)
        /\ last.raised # Ok => last.raised = TypeMismatch

\* C2: with a non-empty sequence of child results a DisjunctionRequirement
\* succeeds if and only if at least one entry is true and fails NoValidChild
\* exactly when every entry is false, whatever the value and the context.
C2_DisjunctionAny ==
    (Validated({"DisjunctionRequirement"}) /\ last.valid_children.given
        /\ last.valid_children.results # <<>>) =>
        LET rs == last.valid_children.results
        IN /\ last.raised = Ok <=> \E i \in DOMAIN rs : rs[i]
           /\ last.raised = NoValidChild <=> \A i \in DOMAIN rs : ~rs[i]

C2_Witness ==
    /\ Validated({"DisjunctionRequirement"})
    /\ last.valid_children = ChildResults(<<FALSE, TRUE>>)
    /\ last.value = StrValue("fast")
    /\ memory = {}
    /\ last.raised = Ok

\* C3: with a non-empty sequence of child results a ConjunctionRequirement
\* succeeds if and only if every entry is true and fails AnyChildInvalid exactly
\* when at least one entry is false, whatever the value and the context.
C3_ConjunctionAll ==
    (Validated({"ConjunctionRequirement"}) /\ last.valid_children.given
        /\ last.valid_children.results # <<>>) =>
        LET rs == last.valid_children.results
        IN /\ last.raised = Ok <=> \A i \in DOMAIN rs : rs[i]
           /\ last.raised = AnyChildInvalid <=> \E i \in DOMAIN rs : ~rs[i]

C3_Witness ==
    /\ Validated({"ConjunctionRequirement"})
    /\ last.valid_children = ChildResults(<<TRUE, FALSE>>)
    /\ last.value = IntValue("1")
    /\ memory = LayerNames
    /\ last.raised = AnyChildInvalid

\* C4: a combinator validated with absent child results (None or the empty
\* sequence) never succeeds and fails MissingChildResults.
C4_AbsentChildResults ==
    (Validated(Combinators)
        /\ (~last.valid_children.given \/ last.valid_children.results = <<>>)) =>
        last.raised = MissingChildResults

\* C5: a TranslationLayerRequirement accepts a value if and only if it is a
\* string registered in the context; a non-string fails TypeMismatch and an
\* unregistered string fails UnresolvedReference.
C5_TranslationLayer ==
    Validated({"TranslationLayerRequirement"}) =>
        /\ last.raised = Ok <=> (last.value.kind = "str" /\ last.value.val \in memory)
        /\ last.value.kind # "str" => last.raised = TypeMismatch
        /\ (last.value.kind = "str" /\ last.value.val \notin memory) =>
               last.raised = UnresolvedReference

C5_Witness ==
    /\ Validated({"TranslationLayerRequirement"})
    /\ last.value = StrValue("layer1")
    /\ memory = {"layer1", "layer2"}
    /\ last.raised = Ok

\* every element of the list satisfies the element requirement
ElementsSatisfy(self, value, context) ==
    \A i \in DOMAIN value.items : ElementValidate(self.element_type, value.items[i], context) = Ok

\* C6: a list whose elements all satisfy the element requirement is accepted if
\* and only if min_elements <= len(value) <= max_elements, and a length outside
\* the bounds fails ArityViolation.
C6_ListArity ==
    (Validated({"ListRequirement"}) /\ last.value.kind = "list"
        /\ ElementsSatisfy(node, last.value, memory)) =>
        LET n == Len(last.value.items)
            inside == node.min_elements <= n /\ n <= node.max_elements
        IN /\ last.raised = Ok <=> inside
           /\ ~inside => last.raised = ArityViolation

\* C7: a list with an element that fails the element requirement fails
\* ElementInvalid, whatever its length.
C7_ElementInvalidFirst ==
    (Validated({"ListRequirement"}) /\ last.value.kind = "list"
        /\ ~ElementsSatisfy(node, last.value, memory)) =>
        last.raised = ElementInvalid

\* C8: every constructed node is well-formed: no ChoiceRequirement with an empty
\* choice list or a non-string choice, no ListRequirement of ListRequirements or
\* with min_elements > max_elements, no combinator without children.
C8_WellFormed ==
    /\ node.cls = "ChoiceRequirement" =>
           /\ node.choices # <<>>
           /\ \A i \in DOMAIN node.choices : node.choices[i].kind = "str"
    /\ node.cls = "ListRequirement" =>
           /\ node.element_type.cls # "ListRequirement"
           /\ node.min_elements <= node.max_elements
    /\ node.cls \in Combinators => node.children # <<>>

\* C9: a leaf requirement constructed with optional = true does not fail when it
\* is validated with an absent value (None).
C9_OptionalAbsent ==
    (Validated(LeafClasses) /\ node.optional /\ last.value = NoneValue) =>
        last.raised = Ok

(* ---------------- a validation request over a tree ---------------- *)
\* The host validates the children of the root one after the other, each with
\* its own candidate value, and then the root with the children's outcomes.
\* request.pos is the child in turn; request.idx is the element in turn while
\* the child in turn is a ListRequirement inside lines 95-96 (0 outside them).
IntElements == {ListValue(xs) : xs \in SeqsUpTo({IntValue("1"), StrValue("layer1")}, MaxLen)}
LeafCandidates == {IntValue("1"), StrValue("fast")}
ListCandidates == IntElements \cup {IntValue("1")}

ListChildren ==
    {NewList(AsLeaf(e), mx, mn, "items", FALSE).node :
        e \in {DepthRequirement, ModeRequirement}, mx \in 0..MaxElements, mn \in 0..MaxElements}
ChildSequences ==
    {<<c>> : c \in CombinatorChildren \cup ListChildren}
      \cup {<<a, l>> : a \in CombinatorChildren, l \in ListChildren}
      \cup {<<l, a>> : l \in ListChildren, a \in CombinatorChildren}
Trees ==
    {NewDisjunction(cs, "any", FALSE).node : cs \in ChildSequences}
      \cup {NewConjunction(cs, "all", FALSE).node : cs \in ChildSequences}

RequestValues(children) ==
    {vs \in [DOMAIN children -> LeafCandidates \cup ListCandidates] :
        \A i \in DOMAIN children :
            IF children[i].cls = "ListRequirement" THEN vs[i] \in ListCandidates
            ELSE vs[i] \in LeafCandidates}

InitTraverse ==
    /\ node \in Trees
    /\ memory = LayerNames
    /\ last = Idle
    /\ \E vs \in RequestValues(node.children) :
           request = [results |-> <<>>, active |-> TRUE, values |-> vs, pos |-> 1, idx |-> 0,
                      calls_root |-> 0,
                      calls_child |-> [i \in DOMAIN node.children |-> 0],
                      calls_elem |-> [i \in DOMAIN node.children |-> 0],
                      outcome |-> "pending"]

ChildInTurn == node.children[request.pos]
ValueInTurn == request.values[request.pos]
Visiting == request.active /\ request.outcome = "pending" /\ request.pos <= Len(node.children)

\* the child in turn is done with outcome ok: the host moves on
Finish(r, ok) == [r EXCEPT !.results = Append(@, ok), !.pos = @ + 1, !.idx = 0]

\* the host validates a child that is not a list
VisitLeaf ==
    /\ Visiting
    /\ ChildInTurn.cls # "ListRequirement"
    /\ request' = Finish([request EXCEPT !.calls_child[request.pos] = @ + 1],
                         Validate(ChildInTurn, ValueInTurn, memory, NoChildResults) = Ok)
    /\ UNCHANGED <<node, memory, last>>

\* lines 88-94: the host calls ListRequirement.validate, which makes its checks
EnterList ==
    /\ Visiting
    /\ ChildInTurn.cls = "ListRequirement"
    /\ request.idx = 0
    /\ LET called == [request EXCEPT !.calls_child[request.pos] = @ + 1]
       IN request' = IF ListChecks(ChildInTurn, ValueInTurn) # Ok THEN Finish(called, FALSE)
                     ELSE [called EXCEPT !.idx = 1]
    /\ UNCHANGED <<node, memory, last>>

\* lines 95-96: one turn of the loop, element_type.validate(element, context)
ValidateElement ==
    /\ Visiting
    /\ request.idx >= 1
    /\ request.idx <= Len(ValueInTurn.items)
    /\ LET called == [request EXCEPT !.calls_elem[request.pos] = @ + 1]
           r == ElementValidate(ChildInTurn.element_type, ValueInTurn.items[request.idx], memory)
       IN request' = IF r # Ok THEN Finish(called, FALSE)
                     ELSE [called EXCEPT !.idx = @ + 1]
    /\ UNCHANGED <<node, memory, last>>

\* line 96 falls off the end of the loop: ListRequirement.validate returns
LeaveList ==
    /\ Visiting
    /\ request.idx >= 1
    /\ request.idx > Len(ValueInTurn.items)
    /\ request' = Finish(request, TRUE)
    /\ UNCHANGED <<node, memory, last>>

\* the host validates the root with the outcomes of its children
VisitRoot ==
    /\ request.active
    /\ request.outcome = "pending"
    /\ request.pos > Len(node.children)
    /\ request' = [request EXCEPT
                      !.calls_root = @ + 1,
                      !.outcome = Validate(node, NoneValue, memory, ChildResults(request.results))]
    /\ UNCHANGED <<node, memory, last>>

NextTraverse ==
    \/ VisitLeaf
    \/ EnterList
    \/ ValidateElement
    \/ LeaveList
    \/ VisitRoot

SpecTraverse == InitTraverse /\ [][NextTraverse]_vars

\* C10 as stated: strict post-order, and no node's validate is invoked more
\* than once in the request.
C10_EveryNodeOnce ==
    request.active =>
        /\ request.calls_root <= 1
        /\ request.calls_root = 1 => request.pos > Len(node.children)
        /\ \A i \in DOMAIN node.children :
               /\ request.calls_child[i] <= 1
               /\ request.calls_elem[i] <= 1

\* C10 amended: the host validates every child of the root before the root,
\* each once, and the root once with exactly the outcomes computed for its
\* children; the element requirement of a ListRequirement is validated by
\* ListRequirement.validate itself, during the list's validation and only after
\* the list's type and arity checks, once per element up to the first that fails.
C10_PostOrder ==
    request.active =>
        /\ request.calls_root <= 1
        /\ Len(request.results) = request.pos - 1
        /\ request.calls_root = 1 <=> request.outcome # "pending"
        /\ request.calls_root = 1 =>
               /\ request.pos = Len(node.children) + 1
               /\ request.outcome = Validate(node, NoneValue, memory, ChildResults(request.results))
        /\ \A i \in DOMAIN node.children :
               LET child == node.children[i]
                   value == request.values[i]
               IN /\ request.calls_child[i] <= 1
                  /\ request.calls_child[i] = 1 <=>
                         (i < request.pos \/ (i = request.pos /\ request.idx >= 1))
                  /\ i < request.pos =>
                         request.results[i] = (Validate(child, value, memory, NoChildResults) = Ok)
                  /\ request.calls_elem[i] <= Len(value.items)
                  /\ request.calls_elem[i] > 0 =>
                         /\ child.cls = "ListRequirement"
                         /\ request.calls_child[i] = 1
                         /\ value.kind = "list"
                         /\ child.min_elements <= Len(value.items)
                         /\ Len(value.items) <= child.max_elements
                  /\ (i < request.pos /\ request.results[i] /\ child.cls = "ListRequirement") =>
                         request.calls_elem[i] = Len(value.items)

C10_Witness ==
    /\ request.active
    /\ request.calls_root = 1
    /\ \E i \in DOMAIN node.children :
           /\ node.children[i].cls = "ListRequirement"
           /\ Len(request.values[i].items) = 2
           /\ request.calls_elem[i] = 2
           /\ request.results[i]

====
